---- MODULE Spec2Model ----
(***************************************************************************)
(* hazelnats: a decorator facade over NATS micro services.                 *)
(*                                                                         *)
(* The model covers src/hazelnats.py: the process-wide ServiceRegistry and *)
(* its ServiceDefinition / EndpointDefinition objects, the @service and    *)
(* @endpoint declaration entry points, ClientBuilder.run with its          *)
(* AsyncExitStack, ServiceBuilder.build, and EndpointDefinition's          *)
(* message_handler with its argument and result conversions.  The handlers *)
(* are the endpoint functions of src/sample1.py and src/sample2.py.        *)
(*                                                                         *)
(* Text is a sequence of Unicode code points, a byte string a sequence of  *)
(* numbers 0..255.                                                         *)
(***************************************************************************)
EXTENDS Integers, Sequences, FiniteSets, TLC

VARIABLES
    services,      \* ServiceRegistry.services: the keys, in insertion order
    sd,            \* ServiceRegistry.services: key -> ServiceDefinition
    current,       \* ServiceRegistry._current_service
    pending,       \* the decorator closure returned by the last service() call
    created,       \* number of ServiceDefinition objects constructed so far
    instances,     \* per service: number of service_cls() instances constructed
    outcome,       \* how the last declaration call ended
    pc,            \* where ClientBuilder.run stands ("idle": not running)
    nc,            \* the NATS client of the latest run: new, connected, closed
    stack,         \* the AsyncExitStack of run: its callbacks, bottom first
    it,            \* build's position in registry.services.values()
    eit,           \* add_endpoints' position in service_def.endpoints.values()
    live,          \* the endpoint definitions whose message_handler is subscribed
    exc,           \* the exception propagating out of the latest run, or None
    closes,        \* calls of nc.close in the latest run
    runs,          \* calls of run so far
    reqs,          \* the requests delivered so far, in arrival order
    conv_in,       \* a handler's return value handed to _convert_result
    conv_out,      \* what _convert_result did with it
    args_in,       \* a handler signature and a payload handed to _convert_to_args
    args_out,      \* what _convert_to_args returned or raised
    cb_in,         \* the servers argument of ClientBuilder(...)
    cb_servers     \* ClientBuilder._servers

decl_vars == <<services, sd, current, pending, created, instances, outcome>>
run_vars == <<pc, nc, stack, it, eit, live, exc, closes, runs>>
conv_vars == <<conv_in, conv_out, args_in, args_out, cb_in, cb_servers>>
vars == <<decl_vars, run_vars, reqs, conv_vars>>

-----------------------------------------------------------------------------
(* Bounds and input domains *)

Names == {"sample", "calc"}

\* calls of run
MaxRuns == 2

\* requests delivered
MaxRequests == 2

None == "None"

RangeOf(s) == {s[i] : i \in DOMAIN s}

-----------------------------------------------------------------------------
(* Python values, as far as the handlers of the samples and the conversions  *)
(* tell them apart.  [t |-> type, v |-> content]:                            *)
(*   NoneType 0 | bytes, bytearray: bytes | str: code points | int: number   *)
(*   bool: BOOLEAN | float: twice the number (halves only)                   *)
(*   dict: sequence of <<key text, value>> | list: sequence of values        *)
(*   Patient: a pydantic model object of sample2 (its id)                    *)

PyNone == [t |-> "NoneType", v |-> 0]
PyBytes(b) == [t |-> "bytes", v |-> b]
PyByteArray(b) == [t |-> "bytearray", v |-> b]
PyStr(cps) == [t |-> "str", v |-> cps]
PyInt(n) == [t |-> "int", v |-> n]
PyBool(b) == [t |-> "bool", v |-> b]
PyFloat(halves) == [t |-> "float", v |-> halves]
PyDict(items) == [t |-> "dict", v |-> items]
PyList(items) == [t |-> "list", v |-> items]
Patient(id) == [t |-> "Patient", v |-> id]

\* an argument left out of a call, and a field of an object not constructed
Omitted == [t |-> "omitted", v |-> 0]
NotConstructed == [t |-> "unset", v |-> 0]

\* a raised exception, where a value is expected
Raised(kind) == [t |-> "raise", v |-> kind]

\* the code points of the ASCII text the code itself writes
Ascii(ch) ==
    CASE ch = " " -> 32 [] ch = "!" -> 33 [] ch = "\"" -> 34 [] ch = "," -> 44
      [] ch = "-" -> 45 [] ch = "." -> 46 [] ch = "0" -> 48 [] ch = "5" -> 53
      [] ch = ":" -> 58
      [] ch = "F" -> 70 [] ch = "H" -> 72 [] ch = "T" -> 84 [] ch = "[" -> 91
      [] ch = "\\" -> 92 [] ch = "]" -> 93
      [] ch = "a" -> 97 [] ch = "b" -> 98 [] ch = "d" -> 100 [] ch = "e" -> 101
      [] ch = "f" -> 102 [] ch = "i" -> 105 [] ch = "l" -> 108 [] ch = "n" -> 110
      [] ch = "o" -> 111 [] ch = "p" -> 112 [] ch = "r" -> 114 [] ch = "s" -> 115
      [] ch = "t" -> 116 [] ch = "u" -> 117 [] ch = "{" -> 123 [] ch = "}" -> 125

Text(chars) == [i \in DOMAIN chars |-> Ascii(chars[i])]

RECURSIVE Flatten(_)
Flatten(seqs) == IF seqs = << >> THEN << >> ELSE Head(seqs) \o Flatten(Tail(seqs))

\* decimal digits of a natural number
RECURSIVE Digits(_)
Digits(n) == IF n < 10 THEN <<48 + n>> ELSE Digits(n \div 10) \o <<48 + (n % 10)>>

\* str(n) for an int
StrInt(n) == IF n < 0 THEN <<45>> \o Digits(-n) ELSE Digits(n)

\* str(b) for a bool
StrBool(b) == IF b THEN Text(<<"T", "r", "u", "e">>) ELSE Text(<<"F", "a", "l", "s", "e">>)

\* str(x) (float.__repr__) for a float that is a whole number of halves
StrFloat(halves) ==
    LET mag == IF halves < 0 THEN -halves ELSE halves
    IN  (IF halves < 0 THEN <<45>> ELSE << >>) \o Digits(mag \div 2)
        \o <<46>> \o (IF mag % 2 = 0 THEN <<48>> ELSE <<53>>)

\* str.encode("utf-8") of one code point; a surrogate cannot be encoded
Utf8OfCodePoint(c) ==
    IF c < 128 THEN <<c>>
    ELSE IF c < 2048 THEN <<192 + (c \div 64), 128 + (c % 64)>>
    ELSE IF c < 65536 THEN <<224 + (c \div 4096), 128 + ((c \div 64) % 64), 128 + (c % 64)>>
    ELSE <<240 + (c \div 262144), 128 + ((c \div 4096) % 64),
           128 + ((c \div 64) % 64), 128 + (c % 64)>>

IsSurrogate(c) == c >= 55296 /\ c <= 57343

\* str.encode("utf-8"): the bytes, or UnicodeEncodeError
Utf8Encode(cps) ==
    IF \E i \in DOMAIN cps : IsSurrogate(cps[i])
    THEN Raised("UnicodeEncodeError")
    ELSE PyBytes(Flatten([i \in DOMAIN cps |-> Utf8OfCodePoint(cps[i])]))

HexDigit(d) == IF d < 10 THEN 48 + d ELSE 87 + d

\* \uXXXX
UEscape(c) == <<92, 117, HexDigit(c \div 4096), HexDigit((c \div 256) % 16),
                HexDigit((c \div 16) % 16), HexDigit(c % 16)>>

\* json.encoder.py_encode_basestring_ascii, one code point
JsonEscape(c) ==
    CASE c = 34 -> <<92, 34>>
      [] c = 92 -> <<92, 92>>
      [] c = 10 -> <<92, 110>>
      [] c = 13 -> <<92, 114>>
      [] c = 9  -> <<92, 116>>
      [] c = 8  -> <<92, 98>>
      [] c = 12 -> <<92, 102>>
      [] c >= 32 /\ c <= 126 /\ c # 34 /\ c # 92 -> <<c>>
      [] c >= 65536 -> UEscape(55296 + ((c - 65536) \div 1024))
                       \o UEscape(56320 + ((c - 65536) % 1024))
      [] OTHER -> UEscape(c)

JsonString(cps) == <<34>> \o Flatten([i \in DOMAIN cps |-> JsonEscape(cps[i])]) \o <<34>>

\* whether json.dumps can serialise the value (else TypeError)
RECURSIVE JsonSerializable(_)
JsonSerializable(x) ==
    CASE x.t \in {"NoneType", "str", "int", "bool", "float"} -> TRUE
      [] x.t = "list" -> \A i \in DOMAIN x.v : JsonSerializable(x.v[i])
      [] x.t = "dict" -> \A i \in DOMAIN x.v : JsonSerializable(x.v[i][2])
      [] OTHER -> FALSE

\* items joined by ", "
RECURSIVE JoinComma(_)
JoinComma(texts) ==
    IF texts = << >> THEN << >>
    ELSE IF Len(texts) = 1 THEN texts[1]
    ELSE texts[1] \o <<44, 32>> \o JoinComma(Tail(texts))

\* json.dumps(x) with the default separators and ensure_ascii, for a
\* serialisable x: the text
RECURSIVE JsonText(_)
JsonText(x) ==
    CASE x.t = "NoneType" -> Text(<<"n", "u", "l", "l">>)
      [] x.t = "bool" -> IF x.v THEN Text(<<"t", "r", "u", "e">>)
                                ELSE Text(<<"f", "a", "l", "s", "e">>)
      [] x.t = "int" -> StrInt(x.v)
      [] x.t = "float" -> StrFloat(x.v)
      [] x.t = "str" -> JsonString(x.v)
      [] x.t = "list" -> <<91>> \o JoinComma([i \in DOMAIN x.v |-> JsonText(x.v[i])]) \o <<93>>
      [] x.t = "dict" ->
            <<123>> \o JoinComma([i \in DOMAIN x.v |->
                          JsonString(x.v[i][1]) \o <<58, 32>> \o JsonText(x.v[i][2])])
            \o <<125>>

\* json.dumps(x): the text, or TypeError for an object json cannot serialise
json_dumps(x) ==
    IF JsonSerializable(x) THEN PyStr(JsonText(x)) ELSE Raised("TypeError")

\* isinstance(x, (int, float, bool)): bool is a subclass of int
IsScalar(x) == x.t \in {"int", "float", "bool"}

\* str(x) for such a scalar
str(x) ==
    CASE x.t = "int" -> PyStr(StrInt(x.v))
      [] x.t = "bool" -> PyStr(StrBool(x.v))
      [] x.t = "float" -> PyStr(StrFloat(x.v))

\* result.encode("utf-8") unless stringifying raised
encode(text) == IF text.t = "raise" THEN text ELSE Utf8Encode(text.v)

\* EndpointDefinition._convert_result up to its await: what it passes to
\* req.respond (bytes or bytearray), PyNone when it returns without responding,
\* or the exception it raises
convert_result(result) ==
    IF result = PyNone THEN PyNone
    ELSE IF result.t \notin {"bytes", "bytearray"}
    THEN encode(IF result.t # "str"
                THEN IF IsScalar(result) THEN str(result) ELSE json_dumps(result)
                ELSE result)
    ELSE result

-----------------------------------------------------------------------------
(* Decoding: bytes.decode("utf-8") and json.loads *)

IsCont(b) == b >= 128 /\ b <= 191

\* the code points of a UTF-8 byte string from position p on, appended to acc, or
\* Raised for a byte sequence the codec rejects
RECURSIVE Utf8From(_, _, _, _)
Utf8From(b, p, acc, surrogatepass) ==
    IF p > Len(b) THEN PyStr(acc)
    ELSE LET b1 == b[p]
             has(n) == p + n <= Len(b) /\ \A j \in 1..n : IsCont(b[p + j])
         IN
         IF b1 < 128 THEN Utf8From(b, p + 1, Append(acc, b1), surrogatepass)
         ELSE IF b1 >= 194 /\ b1 <= 223 /\ has(1)
         THEN Utf8From(b, p + 2, Append(acc, (b1 - 192) * 64 + (b[p + 1] - 128)), surrogatepass)
         ELSE IF b1 >= 224 /\ b1 <= 239 /\ has(2)
         THEN LET c == (b1 - 224) * 4096 + (b[p + 1] - 128) * 64 + (b[p + 2] - 128)
              IN  IF c < 2048 \/ (IsSurrogate(c) /\ ~surrogatepass)
                  THEN Raised("UnicodeDecodeError")
                  ELSE Utf8From(b, p + 3, Append(acc, c), surrogatepass)
         ELSE IF b1 >= 240 /\ b1 <= 244 /\ has(3)
         THEN LET c == (b1 - 240) * 262144 + (b[p + 1] - 128) * 4096
                       + (b[p + 2] - 128) * 64 + (b[p + 3] - 128)
              IN  IF c < 65536 \/ c > 1114111
                  THEN Raised("UnicodeDecodeError")
                  ELSE Utf8From(b, p + 4, Append(acc, c), surrogatepass)
         ELSE Raised("UnicodeDecodeError")

\* fault: decode(errors="ignore") of the ASCII range
Utf8Decode_ignore(b) == PyStr(SelectSeq(b, LAMBDA x : x < 128))

\* payload.decode("utf-8")
Utf8Decode(b) == Utf8From(b, 1, << >>, FALSE)

\* results of the JSON scanner: a value and the position after it, or a failure
Ok(v, p) == [ok |-> TRUE, v |-> v, p |-> p]
Err(kind) == [ok |-> FALSE, v |-> Raised(kind), p |-> 0]

IsWs(c) == c \in {32, 9, 10, 13}
IsDigit(c) == c >= 48 /\ c <= 57
At(s, p) == IF p <= Len(s) THEN s[p] ELSE -1

RECURSIVE SkipWs(_, _)
SkipWs(s, p) == IF p <= Len(s) /\ IsWs(s[p]) THEN SkipWs(s, p + 1) ELSE p

HexVal(c) ==
    IF IsDigit(c) THEN c - 48
    ELSE IF c >= 97 /\ c <= 102 THEN c - 87
    ELSE IF c >= 65 /\ c <= 70 THEN c - 55
    ELSE -1

\* one character of a string literal at p: the closing quote, a plain character
\* or an escape (a \uXXXX pair of surrogates is not joined here: the payloads of
\* the model hold none).  [kind, c, p]: the code point and the position after it
StringChar(s, p) ==
    LET c == At(s, p)
        e == At(s, p + 1)
        char(cp, q) == [kind |-> "char", c |-> cp, p |-> q]
        bad == [kind |-> "bad", c |-> 0, p |-> 0]
    IN  CASE c = 34 -> [kind |-> "end", c |-> 0, p |-> p + 1]
          [] c < 32 -> bad
          [] c >= 32 /\ c # 34 /\ c # 92 -> char(c, p + 1)
          [] c = 92 /\ e \in {34, 92, 47} -> char(e, p + 2)
          [] c = 92 /\ e = 98 -> char(8, p + 2)
          [] c = 92 /\ e = 102 -> char(12, p + 2)
          [] c = 92 /\ e = 110 -> char(10, p + 2)
          [] c = 92 /\ e = 114 -> char(13, p + 2)
          [] c = 92 /\ e = 116 -> char(9, p + 2)
          [] c = 92 /\ e = 117 /\ p + 5 <= Len(s) /\ (\A j \in 2..5 : HexVal(s[p + j]) >= 0) ->
                char(HexVal(s[p + 2]) * 4096 + HexVal(s[p + 3]) * 256
                     + HexVal(s[p + 4]) * 16 + HexVal(s[p + 5]), p + 6)
          [] OTHER -> bad

\* json.decoder.py_scanstring (strict), p after the opening quote
RECURSIVE ScanString(_, _, _)
ScanStringFrom(s, acc, ch) ==
    IF ch.kind = "end" THEN Ok(PyStr(acc), ch.p)
    ELSE IF ch.kind = "bad" THEN Err("JSONDecodeError")
    ELSE ScanString(s, ch.p, Append(acc, ch.c))

ScanString(s, p, acc) == ScanStringFrom(s, acc, StringChar(s, p))

RECURSIVE ScanDigits(_, _, _)
ScanDigits(s, p, acc) ==
    IF p <= Len(s) /\ IsDigit(s[p]) THEN ScanDigits(s, p + 1, acc * 10 + (s[p] - 48))
    ELSE Ok(acc, p)

\* an integer literal: -?(0|[1-9][0-9]*).  A fraction or an exponent after it
\* (a float literal) is outside the model, as are NaN and Infinity.
ScanNumberEnd(s, neg, d) ==
    IF At(s, d.p) \in {46, 101, 69} THEN Err("FloatLiteralNotModelled")
    ELSE Ok(PyInt(IF neg THEN -d.v ELSE d.v), d.p)

ScanNumber(s, p) ==
    LET neg == At(s, p) = 45
        q == IF neg THEN p + 1 ELSE p
    IN  IF ~IsDigit(At(s, q)) THEN Err("JSONDecodeError")
        ELSE ScanNumberEnd(s, neg, IF s[q] = 48 THEN Ok(0, q + 1) ELSE ScanDigits(s, q, 0))

Matches(s, p, word) ==
    /\ p + Len(word) - 1 <= Len(s)
    /\ \A j \in DOMAIN word : s[p + j - 1] = word[j]

\* d[key] = value on a dict kept as a sequence of <<key, value>>
ItemSet(items, key, value) ==
    IF \E i \in DOMAIN items : items[i][1] = key
    THEN [i \in DOMAIN items |-> IF items[i][1] = key THEN <<key, value>> ELSE items[i]]
    ELSE Append(items, <<key, value>>)

\* "key" ws : ws of JSONObject, from the opening quote at p: the key and the
\* position of the value
ScanColon(s, k) ==
    IF ~k.ok THEN k
    ELSE LET q == SkipWs(s, k.p) IN
         IF At(s, q) # 58 THEN Err("JSONDecodeError")
         ELSE Ok(k.v.v, SkipWs(s, q + 1))

ScanKey(s, p) ==
    IF At(s, p) # 34 THEN Err("JSONDecodeError")
    ELSE ScanColon(s, ScanString(s, p + 1, << >>))

\* json.scanner.py_make_scanner's _scan_once with JSONObject and JSONArray, the
\* recursion of the decoder kept as a stack of the open containers.
\*   mode "value": a value is expected at p
\*   mode "reduce": the value val ended before p and goes into the open container
ScanFail(kind) == [mode |-> "error", p |-> 0, stack |-> << >>, val |-> Raised(kind)]
Reduce(cfg, val, p) == [cfg EXCEPT !.mode = "reduce", !.val = val, !.p = p]
Push(cfg, frame, p) == [cfg EXCEPT !.mode = "value", !.stack = Append(@, frame), !.p = p]
\* a scalar scanned (v), a first key scanned (k), a further key scanned (k)
Scanned(cfg, v) == IF v.ok THEN Reduce(cfg, v.v, v.p) ELSE ScanFail(v.v.v)
FirstKey(cfg, k) ==
    IF k.ok THEN Push(cfg, [kind |-> "dict", items |-> << >>, key |-> k.v], k.p)
    ELSE ScanFail(k.v.v)
NextKey(cfg, items, k) ==
    IF k.ok
    THEN [cfg EXCEPT !.mode = "value", !.p = k.p,
                     !.stack[Len(cfg.stack)].items = items,
                     !.stack[Len(cfg.stack)].key = k.v]
    ELSE ScanFail(k.v.v)

ScanStep(s, cfg) ==
    LET p == cfg.p
        c == At(s, p)
        depth == Len(cfg.stack)
        popped == [cfg EXCEPT !.stack = SubSeq(@, 1, depth - 1)]
    IN
    IF cfg.mode = "value"
    THEN CASE c = 34 -> Scanned(cfg, ScanString(s, p + 1, << >>))
           [] c = 123 ->
                LET q == SkipWs(s, p + 1) IN
                IF At(s, q) = 125 THEN Reduce(cfg, PyDict(<< >>), q + 1)
                ELSE FirstKey(cfg, ScanKey(s, q))
           [] c = 91 ->
                LET q == SkipWs(s, p + 1) IN
                IF At(s, q) = 93 THEN Reduce(cfg, PyList(<< >>), q + 1)
                ELSE Push(cfg, [kind |-> "list", items |-> << >>, key |-> << >>], q)
           [] c = 110 /\ Matches(s, p, <<110, 117, 108, 108>>) -> Reduce(cfg, PyNone, p + 4)
           [] c = 116 /\ Matches(s, p, <<116, 114, 117, 101>>) -> Reduce(cfg, PyBool(TRUE), p + 4)
           [] c = 102 /\ Matches(s, p, <<102, 97, 108, 115, 101>>) ->
                Reduce(cfg, PyBool(FALSE), p + 5)
           [] c = 45 \/ IsDigit(c) -> Scanned(cfg, ScanNumber(s, p))
           [] c \in {78, 73} -> ScanFail("FloatLiteralNotModelled")
           [] OTHER -> ScanFail("JSONDecodeError")
    ELSE IF depth = 0
    THEN \* JSONDecoder.decode: nothing but whitespace may follow the value
         IF SkipWs(s, p) = Len(s) + 1 THEN [cfg EXCEPT !.mode = "done"]
         ELSE ScanFail("JSONDecodeError")
    ELSE LET top == cfg.stack[depth]
             r == SkipWs(s, p)
         IN  IF top.kind = "list"
             THEN LET items == Append(top.items, cfg.val) IN
                  IF At(s, r) = 93 THEN Reduce(popped, PyList(items), r + 1)
                  ELSE IF At(s, r) = 44
                  THEN [cfg EXCEPT !.mode = "value", !.p = SkipWs(s, r + 1),
                                   !.stack[depth].items = items]
                  ELSE ScanFail("JSONDecodeError")
             ELSE LET items == ItemSet(top.items, top.key, cfg.val) IN
                  IF At(s, r) = 125 THEN Reduce(popped, PyDict(items), r + 1)
                  ELSE IF At(s, r) = 44
                  THEN NextKey(cfg, items, ScanKey(s, SkipWs(s, r + 1)))
                  ELSE ScanFail("JSONDecodeError")

RECURSIVE ScanRun(_, _)
ScanRun(s, cfg) ==
    IF cfg.mode \in {"done", "error"} THEN cfg.val ELSE ScanRun(s, ScanStep(s, cfg))

\* JSONDecoder.decode on text: one value between whitespace, nothing after it
JsonDecode(s) ==
    ScanRun(s, [mode |-> "value", p |-> SkipWs(s, 1), stack |-> << >>, val |-> PyNone])

\* json.loads(x) for str x, and for bytes x: decoded first, as UTF-8 with
\* surrogatepass unless it starts like UTF-16 or UTF-32 or with a BOM (such
\* payloads are outside the model)
DecodeText(text) == IF text.t = "raise" THEN text ELSE JsonDecode(text.v)

json_loads(x) ==
    IF x.t = "str" THEN JsonDecode(x.v)
    ELSE IF x.t \in {"bytes", "bytearray"}
    THEN IF \E i \in DOMAIN x.v : i <= 4 /\ x.v[i] \in {0, 239, 254, 255}
         THEN Raised("EncodingNotModelled")
         ELSE DecodeText(Utf8From(x.v, 1, << >>, TRUE))
    ELSE Raised("TypeError")

-----------------------------------------------------------------------------
(* ServiceDefinition *)

\* service_inst = None: no instance.  An instance carries the class it was
\* constructed from and the _counter field SampleService.__init__ sets to 0.
NoInst == [cls |-> None, serial |-> 0, counter |-> 0]

\* ServiceDefinition.__init__; id is the identity of the constructed object
ServiceDefinition(id, name, version, description) ==
    [id |-> id, name |-> name, version |-> version, description |-> description,
     endpoints |-> << >>, service_inst |-> NoInst, service_cls |-> None]

\* the value sd holds for a key that is not in the registry
NoDef == ServiceDefinition(0, None, None, None)

\* inspect.getfullargspec(handler) for the endpoint functions of the samples:
\* the positional parameter names and, parallel to them, the annotation of each
\* (None: not annotated)
ReadAwaitWrite == "read_await_write"

getfullargspec(handler) ==
    CASE handler = "reply_one" -> [args |-> <<"self", "req">>, annotations |-> <<None, "Request">>]
      [] handler = "reply_two" -> [args |-> <<"self", "req">>, annotations |-> <<None, "Request">>]
      [] handler = "say_hello" -> [args |-> <<"self", "s">>, annotations |-> <<None, "str">>]
      [] handler = "counter"   -> [args |-> <<"self">>, annotations |-> <<None>>]
      [] handler = "add"       -> [args |-> <<"self", "a", "b">>, annotations |-> <<None, None, None>>]
      [] handler = "get_all"   -> [args |-> <<"self">>, annotations |-> <<None>>]
      [] handler = ReadAwaitWrite -> [args |-> <<"self">>, annotations |-> <<None>>]
      [] OTHER                 -> [args |-> << >>, annotations |-> << >>]

\* EndpointDefinition.__init__ once the handler is known not to be None
EndpointDefinition(service_name, name, handler) ==
    [service_def |-> service_name, name |-> name, handler |-> handler,
     handler_args_spec |-> getfullargspec(handler)]

NoEndpoint == [service_def |-> None, name |-> None, handler |-> None,
               handler_args_spec |-> getfullargspec(None)]

\* fault: a lookup that never finds the endpoint
get_endpoint_misses(service_def, name) == NoEndpoint

\* ServiceDefinition.get_endpoint: dict.get on an insertion-ordered dict kept as
\* a sequence of its values
get_endpoint(service_def, name) ==
    IF \E i \in DOMAIN service_def.endpoints : service_def.endpoints[i].name = name
    THEN LET i == CHOOSE i \in DOMAIN service_def.endpoints :
                      service_def.endpoints[i].name = name
         IN service_def.endpoints[i]
    ELSE NoEndpoint

\* self.endpoints[name] = endpoint_def: a present key keeps its place and takes
\* the new value, an absent key is appended
DictSet(endpoints, name, endpoint_def) ==
    IF \E i \in DOMAIN endpoints : endpoints[i].name = name
    THEN [i \in DOMAIN endpoints |->
             IF endpoints[i].name = name THEN endpoint_def ELSE endpoints[i]]
    ELSE Append(endpoints, endpoint_def)

\* fault: EndpointDefinition.__init__ without its handler test
add_endpoint_accepts(handler) == FALSE

\* ServiceDefinition.add_endpoint: raises (handler None) before the store
add_endpoint_raises(handler) == handler = None

add_endpoint(service_def, name, handler) ==
    IF add_endpoint_raises(handler)
    THEN service_def
    ELSE [service_def EXCEPT
             !.endpoints = DictSet(@, name, EndpointDefinition(service_def.name, name, handler))]

\* fault: resolve_service that constructs nothing
resolve_service_skipped(service_def, serial) == service_def

\* fault: resolve_service without its "if not self.service_inst" test
resolve_service_unguarded(service_def, serial) ==
    [service_def EXCEPT
        !.service_inst = [cls |-> service_def.service_cls, serial |-> serial, counter |-> 0]]

\* ServiceDefinition.resolve_service, for a definition whose service_cls is set;
\* serial is the identity of the instance service_cls() would construct
resolve_service(service_def, serial) ==
    IF service_def.service_inst # NoInst
    THEN service_def
    ELSE [service_def EXCEPT
             !.service_inst = [cls |-> service_def.service_cls, serial |-> serial,
                               counter |-> 0]]

-----------------------------------------------------------------------------
(* ServiceRegistry *)

\* fault: a lookup that never finds the name
get_service_misses(name) == NoDef

\* ServiceRegistry.get_service: NoDef stands for None
get_service(name) ==
    IF name \in RangeOf(services) THEN sd[name] ELSE NoDef

\* fault: the registry hands out its first service when none is current
current_service_defaulted == IF current = None THEN "sample" ELSE current

\* ServiceRegistry.current_service (the property)
current_service == current

\* the keys of ServiceRegistry.services after self.services[service.name] = service
add_service_keys(name) ==
    IF name \in RangeOf(services) THEN services ELSE Append(services, name)

-----------------------------------------------------------------------------
(* The declaration entry points.  The code raises a plain Exception with a   *)
(* message at each failure; outcome names the failure as the specification   *)
(* names it.                                                                 *)

\* service(name, version, description), up to the return of the decorator
service(name, version, description) ==
    LET found == get_service(name)
        service_def == IF found = NoDef
                       THEN ServiceDefinition(created + 1, name, version, description)
                       ELSE found
    IN  /\ pc = "idle"
        /\ created' = IF found = NoDef THEN created + 1 ELSE created
        /\ services' = IF found = NoDef THEN add_service_keys(name) ELSE services
        /\ sd' = [sd EXCEPT ![name] = service_def]
        /\ current' = service_def.name
        /\ pending' = service_def.name
        /\ outcome' = "ok"
        /\ UNCHANGED <<instances, run_vars, reqs, conv_vars>>

\* fault: the class of the first declaration is kept, as name, version and
\* description are
decorator_first_wins(cls) ==
    /\ pc = "idle"
    /\ pending # None
    /\ sd' = [sd EXCEPT ![pending].service_cls = IF @ = None THEN cls ELSE @]
    /\ pending' = None
    /\ outcome' = "ok"
    /\ UNCHANGED <<services, current, created, instances, run_vars, reqs, conv_vars>>

\* the decorator service() returned, applied to the class once its body ran
decorator(cls) ==
    /\ pc = "idle"
    /\ pending # None
    /\ sd' = [sd EXCEPT ![pending].service_cls = cls]
    /\ pending' = None
    /\ outcome' = "ok"
    /\ UNCHANGED <<services, current, created, instances, run_vars, reqs, conv_vars>>

\* func.__name__ if not name or callable(name) else name; func None has no __name__
endpoint_name(name, func) == IF name = None THEN func ELSE name

\* endpoint(name)(func), and the bare @endpoint as name = None
endpoint(name, func) ==
    /\ pc = "idle"
    /\ outcome' =
          IF current_service = None THEN "MissingServiceContextError"
          ELSE IF name = None /\ func = None THEN "AttributeError"
          ELSE IF get_endpoint(sd[current_service], endpoint_name(name, func)) # NoEndpoint
               THEN "DuplicateEndpointError"
          ELSE IF add_endpoint_raises(func) THEN "InvalidHandlerError"
          ELSE "ok"
    /\ sd' = IF outcome' = "ok"
             THEN [sd EXCEPT ![current_service] =
                      add_endpoint(@, endpoint_name(name, func), func)]
             ELSE sd
    /\ UNCHANGED <<services, current, pending, created, instances, run_vars, reqs, conv_vars>>

\* service_def.add_endpoint(name, handler) called on a registered definition
\* directly, not through the endpoint decorator
add_endpoint_call(service_name, name, handler) ==
    /\ pc = "idle"
    /\ service_name \in RangeOf(services)
    /\ outcome' = IF add_endpoint_raises(handler) THEN "InvalidHandlerError" ELSE "ok"
    /\ sd' = [sd EXCEPT ![service_name] = add_endpoint(@, name, handler)]
    /\ UNCHANGED <<services, current, pending, created, instances, run_vars, reqs, conv_vars>>

-----------------------------------------------------------------------------
(* ClientBuilder.run and ServiceBuilder.build.  One action per stretch of    *)
(* code between two awaits; the transport (nats, micro) answers each await   *)
(* by returning or by raising.  Declarations are module-level code that runs *)
(* to completion; the model lets them run whenever no run is under way.      *)

IsService(entry) == entry \in Names

\* run is called: Client() is constructed and nc.connect awaited
run ==
    /\ pc = "idle"
    /\ runs < MaxRuns
    /\ runs' = runs + 1
    /\ pc' = "connect"
    /\ UNCHANGED <<decl_vars, nc, stack, it, eit, live, exc, closes, reqs, conv_vars>>

\* fault: nc.close is never registered
push_close_forgotten(callbacks) == callbacks

\* the callbacks on the stack once nc.connect returned: push_async_callback(nc.close)
push_close(callbacks) == Append(callbacks, "nc.close")

\* nc.connect returns; nc.close is pushed; build starts its loop
connect_returns ==
    /\ pc = "connect"
    /\ nc' = "connected"
    /\ stack' = push_close(stack)
    /\ it' = 1
    /\ pc' = "build"
    /\ UNCHANGED <<decl_vars, eit, live, exc, closes, runs, reqs, conv_vars>>

\* nc.connect raises: the stack is still empty when the async with is left
connect_raises ==
    /\ pc = "connect"
    /\ exc' = "ConnectError"
    /\ pc' = "unwind"
    /\ UNCHANGED <<decl_vars, nc, stack, it, eit, live, closes, runs, reqs, conv_vars>>

\* service_cls() of resolve_service raises: no class was ever set (None())
constructor_raises(service_def) ==
    service_def.service_inst = NoInst /\ service_def.service_cls = None

\* add_service up to its await: resolve_service, then micro.add_service is entered
add_service ==
    /\ pc = "build"
    /\ it <= Len(services)
    /\ LET name == services[it] IN
       IF constructor_raises(sd[name])
       THEN /\ exc' = "TypeError"
            /\ pc' = "unwind"
            /\ UNCHANGED <<sd, instances>>
       ELSE /\ sd' = [sd EXCEPT ![name] = resolve_service(@, instances[name] + 1)]
            /\ instances' = [instances EXCEPT ![name] =
                                IF sd'[name].service_inst.serial # sd[name].service_inst.serial
                                THEN @ + 1 ELSE @]
            /\ pc' = "enter"
            /\ exc' = exc
    /\ UNCHANGED <<services, current, pending, created, outcome,
                   nc, stack, it, eit, live, closes, runs, reqs, conv_vars>>

\* enter_async_context(micro.add_service(...)) returns: the service is started and
\* its stop is pushed; add_group; add_endpoints starts its loop
enter_returns ==
    /\ pc = "enter"
    /\ stack' = Append(stack, services[it])
    /\ eit' = 1
    /\ pc' = "endpoints"
    /\ UNCHANGED <<decl_vars, nc, it, live, exc, closes, runs, reqs, conv_vars>>

\* enter_async_context raises: nothing is pushed
enter_raises ==
    /\ pc = "enter"
    /\ exc' = "TransportError"
    /\ pc' = "unwind"
    /\ UNCHANGED <<decl_vars, nc, stack, it, eit, live, closes, runs, reqs, conv_vars>>

\* grp.add_endpoint(endpoint_def.name, endpoint_def.message_handler) returns
add_endpoint_returns ==
    /\ pc = "endpoints"
    /\ eit <= Len(sd[services[it]].endpoints)
    /\ live' = live \cup {sd[services[it]].endpoints[eit]}
    /\ eit' = eit + 1
    /\ UNCHANGED <<decl_vars, pc, nc, stack, it, exc, closes, runs, reqs, conv_vars>>

\* grp.add_endpoint raises
add_endpoint_raises_transport ==
    /\ pc = "endpoints"
    /\ eit <= Len(sd[services[it]].endpoints)
    /\ exc' = "TransportError"
    /\ pc' = "unwind"
    /\ UNCHANGED <<decl_vars, nc, stack, it, eit, live, closes, runs, reqs, conv_vars>>

\* add_endpoints' loop ends; build goes on to the next service
add_endpoints_done ==
    /\ pc = "endpoints"
    /\ eit > Len(sd[services[it]].endpoints)
    /\ it' = it + 1
    /\ pc' = "build"
    /\ UNCHANGED <<decl_vars, nc, stack, eit, live, exc, closes, runs, reqs, conv_vars>>

\* build's loop ends; run awaits quit_event.wait()
build_done ==
    /\ pc = "build"
    /\ it > Len(services)
    /\ pc' = "wait"
    /\ UNCHANGED <<decl_vars, nc, stack, it, eit, live, exc, closes, runs, reqs, conv_vars>>

\* the signal handler sets quit_event; wait returns and the async with is left
quit ==
    /\ pc = "wait"
    /\ pc' = "unwind"
    /\ UNCHANGED <<decl_vars, nc, stack, it, eit, live, exc, closes, runs, reqs, conv_vars>>

\* fault: the callbacks taken first in, first out
next_callback_fifo(callbacks) == 1

\* AsyncExitStack.__aexit__ takes its callbacks last in, first out
next_callback(callbacks) == Len(callbacks)

\* one callback of the exit stack runs: a service's stop, which ends its
\* subscriptions (and may raise), or nc.close
unwind ==
    /\ pc = "unwind"
    /\ stack # << >>
    /\ LET k == next_callback(stack)
           entry == stack[k]
       IN  /\ stack' = [j \in 1..(Len(stack) - 1) |-> IF j < k THEN stack[j] ELSE stack[j + 1]]
           /\ IF IsService(entry)
              THEN /\ live' = {ep \in live : ep.service_def # entry}
                   /\ \E raised \in BOOLEAN : exc' = IF raised THEN "StopError" ELSE exc
                   /\ UNCHANGED <<nc, closes>>
              ELSE /\ nc' = "closed"
                   /\ closes' = closes + 1
                   /\ UNCHANGED <<live, exc>>
    /\ UNCHANGED <<decl_vars, pc, it, eit, runs, reqs, conv_vars>>

\* the stack is empty: run returns self, or exc propagates to the caller; its
\* locals are gone
run_exits ==
    /\ pc = "unwind"
    /\ stack = << >>
    /\ pc' = "idle"
    /\ nc' = "new"
    /\ exc' = None
    /\ closes' = 0
    /\ it' = 0
    /\ eit' = 0
    /\ UNCHANGED <<decl_vars, stack, live, runs, reqs, conv_vars>>

-----------------------------------------------------------------------------
(* EndpointDefinition.message_handler *)

\* the micro.Request object, as an argument
RequestHandle == [t |-> "Request", v |-> 0]

\* spec.annotations.get(name): the annotation of the parameter of that name
AnnotationOf(spec, name) ==
    IF \E i \in DOMAIN spec.args : spec.args[i] = name
    THEN spec.annotations[CHOOSE i \in DOMAIN spec.args : spec.args[i] = name]
    ELSE None

\* fault: the payload handed on as it came, whatever the annotation
convert_payload_raw(argtype, data) == PyBytes(data)

\* the payload converted for a single parameter annotated argtype
convert_payload(argtype, data) ==
    IF argtype \in {None, "bytes", "bytearray"}
    THEN IF argtype = "bytearray" THEN PyByteArray(data) ELSE PyBytes(data)
    ELSE IF argtype = "str" THEN Utf8Decode(data)
    ELSE IF argtype = "dict" THEN json_loads(PyBytes(data))
    ELSE PyBytes(data)

\* args.append(payload), unless converting the payload raised
positional(has_self, args, payload) ==
    IF payload.t = "raise" THEN payload
    ELSE [t |-> "args", has_self |-> has_self,
          args |-> Append(args, payload), kwargs |-> PyDict(<< >>)]

\* json.loads(payload.decode("utf-8")), unless decoding raised
loads_text(text) == IF text.t = "raise" THEN text ELSE json_loads(text)

\* kwargs = json.loads(...), unless that raised
named(has_self, args, kwargs) ==
    IF kwargs.t = "raise" THEN kwargs
    ELSE [t |-> "args", has_self |-> has_self, args |-> args, kwargs |-> kwargs]

\* EndpointDefinition._convert_to_args: [has_self, args, kwargs], or Raised
convert_to_args(endpoint_def, data) ==
    LET spec == endpoint_def.handler_args_spec
        has_self == Len(spec.args) > 0 /\ spec.args[1] = "self"
        without_self == IF has_self THEN Tail(spec.args) ELSE spec.args
        takes_req == /\ Len(without_self) > 0
                     /\ AnnotationOf(spec, without_self[1]) = "Request"
        handler_args == IF takes_req THEN Tail(without_self) ELSE without_self
        args == IF takes_req THEN <<RequestHandle>> ELSE << >>
    IN  IF Len(handler_args) > 0
        THEN IF Len(handler_args) = 1
             THEN positional(has_self, args,
                             convert_payload(AnnotationOf(spec, handler_args[1]), data))
             ELSE named(has_self, args, loads_text(Utf8Decode(data)))
        ELSE [t |-> "args", has_self |-> has_self, args |-> args, kwargs |-> PyDict(<< >>)]

\* a + b of CalcService.add for the values json.loads yields here
PyAdd(a, b) ==
    IF a.t \in {"int", "bool"} /\ b.t \in {"int", "bool"}
    THEN LET num(x) == IF x.t = "int" THEN x.v ELSE IF x.v THEN 1 ELSE 0
         IN  PyInt(num(a) + num(b))
    ELSE IF a.t = "str" /\ b.t = "str" THEN PyStr(a.v \o b.v)
    ELSE IF a.t = "list" /\ b.t = "list" THEN PyList(a.v \o b.v)
    ELSE Raised("TypeError")

\* { 'result': value }, unless computing the value raised
result_of(value) ==
    IF value.t = "raise" THEN value
    ELSE PyDict(<< <<Text(<<"r", "e", "s", "u", "l", "t">>), value>> >>)

DictGet(items, key) == (CHOOSE i \in DOMAIN items : items[i][1] = key)

\* the parameters of the endpoint function besides self that a call must fill
\* by position (add takes its two by name)
positional_parameters(handler) ==
    IF handler \in {"reply_one", "reply_two", "say_hello"} THEN 1 ELSE 0

\* the handler is awaited with (target, *args, **kwargs): the endpoint functions
\* of the samples, each run to its first await or to its return.
\*   ret: the value returned, or Raised; counter: target._counter afterwards;
\*   sent: what the handler itself passed to req.respond; suspended: it stands
\*   at an await of its own
call_handler(handler, target, cv, data) ==
    LET out(ret, counter, sent, suspended) ==
            [ret |-> ret, counter |-> counter, sent |-> sent, suspended |-> suspended]
        keys == {cv.kwargs.v[i][1] : i \in DOMAIN cv.kwargs.v}
    IN
    CASE handler \in {"reply_one", "reply_two", "say_hello", "counter", "get_all",
                      ReadAwaitWrite}
           /\ cv.kwargs # PyDict(<< >>) ->
            out(Raised("TypeError"), target.counter, << >>, FALSE)
      [] Len(cv.args) # positional_parameters(handler) ->
            out(Raised("TypeError"), target.counter, << >>, FALSE)
      [] handler = ReadAwaitWrite /\ cv.kwargs = PyDict(<< >>) ->
            out(PyNone, target.counter, << >>, TRUE)
      [] handler = "reply_one" /\ cv.kwargs = PyDict(<< >>) ->
            out(PyNone, target.counter, <<PyBytes(data)>>, TRUE)
      [] handler = "reply_two" /\ cv.kwargs = PyDict(<< >>) ->
            out(PyBytes(data), target.counter, << >>, FALSE)
      [] handler = "say_hello" /\ cv.kwargs = PyDict(<< >>) ->
            out(PyStr(Text(<<"H", "e", "l", "l", "o", " ">>) \o cv.args[1].v \o Text(<<"!">>)),
                target.counter, << >>, FALSE)
      [] handler = "counter" /\ cv.kwargs = PyDict(<< >>) ->
            IF target.cls = "SampleService"
            THEN out(PyDict(<< <<Text(<<"r", "e", "s", "u", "l", "t">>), PyInt(target.counter + 1)>> >>),
                     target.counter + 1, << >>, FALSE)
            ELSE out(Raised("AttributeError"), target.counter, << >>, FALSE)
      [] handler = "get_all" /\ cv.kwargs = PyDict(<< >>) ->
            IF target.cls = "PatientService"
            THEN out(PyList(<<Patient(1), Patient(2)>>), target.counter, << >>, FALSE)
            ELSE out(Raised("AttributeError"), target.counter, << >>, FALSE)
      [] handler = "add" ->
            IF cv.kwargs.t = "dict" /\ keys = {Text(<<"a">>), Text(<<"b">>)}
            THEN out(result_of(PyAdd(cv.kwargs.v[DictGet(cv.kwargs.v, Text(<<"a">>))][2],
                                     cv.kwargs.v[DictGet(cv.kwargs.v, Text(<<"b">>))][2])),
                     target.counter, << >>, FALSE)
            ELSE out(Raised("TypeError"), target.counter, << >>, FALSE)

\* message_handler from the handler's return on: _convert_result up to its await.
\* The request's stage, the value returned and what the dispatcher passed to
\* req.respond.
responding(req, ret, sending) ==
    [req EXCEPT !.ret = ret,
                !.stage = IF sending.t = "raise" THEN "raised"
                          ELSE IF sending = PyNone THEN "done"
                          ELSE "responding",
                !.error = IF sending.t = "raise" THEN sending.v ELSE None,
                !.dispatcher_sent = IF sending.t \in {"raise", "NoneType"}
                                    THEN << >> ELSE <<sending>>]

after_return(req, ret) ==
    responding(req, ret, IF ret.t = "raise" THEN ret ELSE convert_result(ret))

\* fault: a fresh instance of the class for every request
target_of_fresh(service_def) ==
    [cls |-> service_def.service_cls, serial |-> service_def.service_inst.serial + 1,
     counter |-> 0]

\* instance if singleton, else assume handler is class method: NoInst stands
\* for the class itself, which has no instance fields
target_of(service_def) == service_def.service_inst

\* a request arrives at a subscribed endpoint: message_handler runs to its first
\* await (the handler's own, or req.respond in _convert_result) or to its end
arrived(endpoint_def, data, target) ==
    [service |-> endpoint_def.service_def, name |-> endpoint_def.name,
     handler |-> endpoint_def.handler, data |-> data,
     target |-> target.serial, local |-> target.counter, cv |-> PyNone,
     stage |-> "arrived", ret |-> PyNone,
     error |-> None, handler_sent |-> << >>, dispatcher_sent |-> << >>]

\* the request once the handler returned or stands at its own await
handled(req, called) ==
    IF called.suspended
    THEN [req EXCEPT !.cv = called.cv, !.stage = "in_handler", !.handler_sent = called.sent]
    ELSE after_return([req EXCEPT !.cv = called.cv, !.handler_sent = called.sent],
                      called.ret)

\* the handler's outcome for converted arguments cv; it is not called when the
\* conversion raised
invoke(endpoint_def, data, target, cv) ==
    [cv |-> cv] @@
    (IF cv.t = "raise"
     THEN [ret |-> cv, counter |-> target.counter, sent |-> << >>, suspended |-> FALSE]
     ELSE call_handler(endpoint_def.handler, target, cv, data))

\* fault: the raw-request parameter deleted from the inspected list itself
args_after_dispatch_aliased(spec) ==
    LET k == IF Len(spec.args) > 0 /\ spec.args[1] = "self" THEN 2 ELSE 1 IN
    IF Len(spec.args) >= k /\ spec.annotations[k] = "Request"
    THEN [args |-> [i \in 1..(Len(spec.args) - 1) |->
                       IF i < k THEN spec.args[i] ELSE spec.args[i + 1]],
          annotations |-> [i \in 1..(Len(spec.args) - 1) |->
                       IF i < k THEN spec.annotations[i] ELSE spec.annotations[i + 1]]]
    ELSE spec

\* _handler_args_spec once _convert_to_args returned: handler_args is a slice of
\* spec.args, a list of its own, so "del handler_args[0]" leaves spec.args alone
args_after_dispatch(spec) == spec

\* the endpoint definition once its message_handler ran _convert_to_args
after_dispatch(endpoint_def) ==
    [endpoint_def EXCEPT !.handler_args_spec = args_after_dispatch(@)]

message_handler_body(endpoint_def, data, target, called) ==
    /\ sd' = [sd EXCEPT ![endpoint_def.service_def].service_inst.counter = called.counter,
                        ![endpoint_def.service_def].endpoints =
                            [k \in DOMAIN @ |-> IF @[k] = endpoint_def
                                                THEN after_dispatch(@[k]) ELSE @[k]]]
    /\ live' = (live \ {endpoint_def}) \cup {after_dispatch(endpoint_def)}
    /\ reqs' = Append(reqs, handled(arrived(endpoint_def, data, target), called))

\* message_handler(req) up to its first await
dispatch(endpoint_def, data) ==
    /\ endpoint_def \in live
    /\ Len(reqs) < MaxRequests
    /\ message_handler_body(endpoint_def, data, target_of(sd[endpoint_def.service_def]),
           invoke(endpoint_def, data, target_of(sd[endpoint_def.service_def]),
                  convert_to_args(endpoint_def, data)))
    /\ UNCHANGED <<services, current, pending, created, instances, outcome,
                   pc, nc, stack, it, eit, exc, closes, runs, conv_vars>>

\* a request of the service stands inside its handler
in_flight(service_name) ==
    \E i \in DOMAIN reqs : reqs[i].service = service_name /\ reqs[i].stage = "in_handler"

\* fault: one invocation per service at a time
message_handler_serialized(endpoint_def, data) ==
    ~in_flight(endpoint_def.service_def) /\ dispatch(endpoint_def, data)

\* the transport calls message_handler for a request as soon as it arrives:
\* nothing is taken or waited for before the handler is called
message_handler(endpoint_def, data) == dispatch(endpoint_def, data)

\* an awaited req.respond returns: the handler's own (reply_one then returns
\* None), or the dispatcher's, which ends message_handler
respond_returns(i) ==
    /\ i \in DOMAIN reqs
    /\ \/ reqs[i].stage = "responding"
       \/ reqs[i].stage = "in_handler" /\ reqs[i].handler_sent # << >>
    /\ reqs' = [reqs EXCEPT ![i] = IF @.stage = "in_handler"
                                   THEN after_return(@, PyNone)
                                   ELSE [@ EXCEPT !.stage = "done"]]
    /\ UNCHANGED <<decl_vars, run_vars, conv_vars>>

\* an application handler that reads self._counter, awaits something else than
\* the response, and then writes the value it read plus one and returns it: its
\* await returns
handler_resumes(i) ==
    /\ i \in DOMAIN reqs
    /\ reqs[i].stage = "in_handler"
    /\ reqs[i].handler = ReadAwaitWrite
    /\ sd' = [sd EXCEPT ![reqs[i].service].service_inst.counter = reqs[i].local + 1]
    /\ reqs' = [reqs EXCEPT ![i] =
                   after_return(@, PyDict(<< <<Text(<<"r", "e", "s", "u", "l", "t">>),
                                              PyInt(reqs[i].local + 1)>> >>))]
    /\ UNCHANGED <<services, current, pending, created, instances, outcome,
                   run_vars, conv_vars>>

\* _convert_result(result, req) on its own, for a return value conv_in: how the
\* call ended and what it passed to req.respond
NotConverted == [state |-> "pending", error |-> None, responded |-> << >>]

converted(sending) ==
    [state |-> IF sending.t = "raise" THEN "raised" ELSE "returned",
     error |-> IF sending.t = "raise" THEN sending.v ELSE None,
     responded |-> IF sending.t \in {"raise", "NoneType"} THEN << >> ELSE <<sending>>]

convert_result_call ==
    /\ conv_out = NotConverted
    /\ conv_out' = converted(convert_result(conv_in))
    /\ UNCHANGED <<decl_vars, run_vars, reqs, conv_in, args_in, args_out, cb_in, cb_servers>>

\* _convert_to_args(req) on its own, for an endpoint whose handler has the
\* signature args_in.spec and a request whose data() is args_in.data
convert_to_args_call ==
    /\ args_out = PyNone
    /\ args_out' = convert_to_args([NoEndpoint EXCEPT !.handler_args_spec = args_in.spec],
                                   args_in.data)
    /\ UNCHANGED <<decl_vars, run_vars, reqs, conv_in, conv_out, args_in, cb_in, cb_servers>>

-----------------------------------------------------------------------------
(* ClientBuilder.__init__ *)

\* "nats://localhost:4222"
DefaultServer ==
    PyStr(<<110, 97, 116, 115, 58, 47, 47, 108, 111, 99, 97, 108, 104, 111, 115, 116,
            58, 52, 50, 50, 50>>)

\* str.split(','): the pieces between the commas, empty pieces included; the
\* empty text gives one empty piece
RECURSIVE split(_, _)
split(cps, piece) ==
    IF cps = << >> THEN <<PyStr(piece)>>
    ELSE IF Head(cps) = 44 THEN <<PyStr(piece)>> \o split(Tail(cps), << >>)
    ELSE split(Tail(cps), Append(piece, Head(cps)))

\* ClientBuilder(servers): self._servers
ClientBuilder_init(servers) ==
    LET given == IF servers = Omitted THEN PyList(<<DefaultServer>>) ELSE servers IN
    IF given.t = "str" THEN PyList(split(given.v, << >>)) ELSE given

\* ClientBuilder is constructed with cb_in
ClientBuilder_call ==
    /\ cb_servers = NotConstructed
    /\ cb_servers' = ClientBuilder_init(cb_in)
    /\ UNCHANGED <<decl_vars, run_vars, reqs, conv_in, conv_out, args_in, args_out, cb_in>>

-----------------------------------------------------------------------------
(* Specifications *)

InitRegistry ==
    /\ services = << >>
    /\ sd = [n \in Names |-> NoDef]
    /\ current = None
    /\ pending = None
    /\ created = 0
    /\ instances = [n \in Names |-> 0]
    /\ outcome = "none"
    /\ pc = "idle"
    /\ nc = "new"
    /\ stack = << >>
    /\ it = 0
    /\ eit = 0
    /\ live = {}
    /\ exc = None
    /\ closes = 0
    /\ runs = 0
    /\ reqs = << >>

\* nothing handed to the conversions or to ClientBuilder on their own
NoArgs == [spec |-> getfullargspec(None), data |-> << >>]
InitProbes ==
    /\ args_in = NoArgs
    /\ args_out = PyNone
    /\ cb_in = Omitted
    /\ cb_servers = NotConstructed

Init ==
    /\ InitRegistry
    /\ conv_in = PyNone
    /\ conv_out = NotConverted
    /\ InitProbes

-----------------------------------------------------------------------------
(* Spec: the whole life of a program.  Services are declared as the samples   *)
(* declare them (default version and description, the bare @endpoint), run is *)
(* called up to MaxRuns times, requests arrive at the subscribed endpoints.   *)

Classes == {"SampleService"}
Funcs == {"counter"}
Payloads == {<< >>, <<104, 105>>}

Declare ==
    \/ \E n \in Names : service(n, "1.0.0", "")
    \/ \E c \in Classes : decorator(c)
    \/ \E f \in Funcs : endpoint(None, f)

Build ==
    \/ run
    \/ connect_returns
    \/ connect_raises
    \/ add_service
    \/ enter_returns
    \/ enter_raises
    \/ add_endpoint_returns
    \/ add_endpoint_raises_transport
    \/ add_endpoints_done
    \/ build_done
    \/ quit
    \/ unwind
    \/ run_exits

Serve ==
    \/ \E ep \in live, data \in Payloads : message_handler(ep, data)
    \/ \E i \in DOMAIN reqs : respond_returns(i)

Next == Declare \/ Build \/ Serve

Spec == Init /\ [][Next]_vars

-----------------------------------------------------------------------------
(* SpecDecl: the declaration phase alone, with every argument varied.        *)

Versions == {"1.0.0", "2.0.0"}
Descriptions == {"", "second"}
DeclClasses == {"SampleService", "CalcService"}
DeclFuncs == {"counter", "reply_one", None}
EndpointNames == {None, "counter"}

NextDecl ==
    \/ \E n \in Names, v \in Versions, d \in Descriptions : service(n, v, d)
    \/ \E c \in DeclClasses : decorator(c)
    \/ \E e \in EndpointNames, f \in DeclFuncs : endpoint(e, f)

SpecDecl == Init /\ [][NextDecl]_vars

-----------------------------------------------------------------------------
(* SpecConv: _convert_result applied to one return value.                    *)

ResultKey == Text(<<"r", "e", "s", "u", "l", "t">>)

ResultValues ==
    {PyNone}
    \cup {PyBytes(b) : b \in {<< >>, <<104, 105>>, <<255, 0>>}}
    \cup {PyByteArray(b) : b \in {<< >>, <<104>>}}
    \cup {PyStr(t) : t \in {<< >>, <<52, 50>>, <<233>>, <<8364, 34>>, <<128512>>, <<110, 10>>}}
    \cup {PyInt(n) : n \in -3..42}
    \cup {PyBool(b) : b \in BOOLEAN}
    \cup {PyFloat(h) : h \in {-3, 0, 1, 4}}
    \cup {PyDict(<< <<ResultKey, PyInt(n)>> >>) : n \in 1..3}
    \cup {PyDict(<< >>),
          PyDict(<< <<Text(<<"a">>), PyStr(<<233>>)>>,
                    <<Text(<<"b">>), PyList(<<PyInt(1), PyNone, PyBool(TRUE)>>)>> >>),
          PyDict(<< <<Text(<<"p">>), Patient(1)>> >>)}
    \cup {PyList(<< >>), PyList(<<PyInt(1), PyFloat(3)>>),
          PyList(<<Patient(1), Patient(2)>>), Patient(1)}

InitConv ==
    /\ InitRegistry
    /\ conv_in \in ResultValues
    /\ conv_out = NotConverted
    /\ InitProbes

NextConv == convert_result_call

SpecConv == InitConv /\ [][NextConv]_vars

-----------------------------------------------------------------------------
(* SpecArgs: _convert_to_args applied to one handler signature and one       *)
(* payload.                                                                  *)

\* what inspect.getfullargspec gives for a handler with these parameters, each
\* <<name, annotation>>
Signature(params) ==
    [args |-> [i \in DOMAIN params |-> params[i][1]],
     annotations |-> [i \in DOMAIN params |-> params[i][2]]]

Signatures ==
    {Signature(ps) : ps \in
        {<< >>,
         << <<"self", None>> >>,
         << <<"self", None>>, <<"req", "Request">> >>,
         << <<"req", "Request">> >>,
         << <<"self", None>>, <<"x", None>> >>,
         << <<"self", None>>, <<"b", "bytes">> >>,
         << <<"self", None>>, <<"b", "bytearray">> >>,
         << <<"self", None>>, <<"s", "str">> >>,
         << <<"s", "str">> >>,
         << <<"self", None>>, <<"d", "dict">> >>,
         << <<"self", None>>, <<"n", "int">> >>,
         << <<"self", None>>, <<"req", "Request">>, <<"s", "str">> >>,
         << <<"self", None>>, <<"a", None>>, <<"b", None>> >>,
         << <<"a", None>>, <<"b", None>> >>,
         << <<"self", None>>, <<"req", "Request">>, <<"a", None>>, <<"b", None>> >>,
         << <<"self", None>>, <<"x", None>>, <<"req", "Request">> >>}}

\* {"a":1,"b":2}
PayloadAB == <<123, 34, 97, 34, 58, 49, 44, 34, 98, 34, 58, 50, 125>>

ArgPayloads ==
    {<< >>,                              \* empty
     <<104, 105>>,                       \* hi
     <<195, 169>>,                       \* e acute, UTF-8
     <<255>>,                            \* not UTF-8
     PayloadAB,
     <<123, 34, 97, 34, 58, 49>>,        \* {"a":1  (cut short)
     <<91, 49, 44, 50, 93>>,             \* [1,2]
     <<123, 125>>}                       \* {}

InitArgs ==
    /\ InitRegistry
    /\ conv_in = PyNone
    /\ conv_out = NotConverted
    /\ args_in \in [spec : Signatures, data : ArgPayloads]
    /\ args_out = PyNone
    /\ cb_in = Omitted
    /\ cb_servers = NotConstructed

NextArgs == convert_to_args_call

SpecArgs == InitArgs /\ [][NextArgs]_vars

-----------------------------------------------------------------------------
(* SpecServers: ClientBuilder constructed with one servers argument.         *)

\* texts of a, b and the comma, up to three characters
AddressTexts ==
    {<< >>} \cup UNION {[1..n -> {97, 98, 44}] : n \in 1..3}

ServerArguments ==
    {Omitted}
    \cup {PyStr(t) : t \in AddressTexts}
    \cup {PyList(<< >>)}
    \cup {PyList(<<PyStr(t)>>) : t \in {<< >>, <<97>>, <<98>>}}
    \cup {PyList(<<PyStr(t), PyStr(u)>>) : t, u \in {<< >>, <<97>>, <<98>>}}

InitServers ==
    /\ InitRegistry
    /\ conv_in = PyNone
    /\ conv_out = NotConverted
    /\ args_in = NoArgs
    /\ args_out = PyNone
    /\ cb_in \in ServerArguments
    /\ cb_servers = NotConstructed

NextServers == ClientBuilder_call

SpecServers == InitServers /\ [][NextServers]_vars

-----------------------------------------------------------------------------
(* SpecServe: the services of sample1 are declared and built, run waits for  *)
(* quit, and requests arrive.                                                *)

RECURSIVE add_endpoints_of(_, _)
add_endpoints_of(service_def, funcs) ==
    IF funcs = << >> THEN service_def
    ELSE add_endpoints_of(add_endpoint(service_def, Head(funcs), Head(funcs)), Tail(funcs))

\* a definition declared with a class and its endpoint functions, and resolved
Declared(id, name, cls, funcs) ==
    resolve_service(
        add_endpoints_of([ServiceDefinition(id, name, "1.0.0", "") EXCEPT !.service_cls = cls],
                         funcs),
        1)

\* the state in which run of sample1 waits: each stands where the actions of
\* Declare and Build leave it
Waiting(defs) ==
    /\ services = [i \in DOMAIN defs |-> defs[i].name]
    /\ sd = [n \in Names |->
                IF \E i \in DOMAIN defs : defs[i].name = n
                THEN defs[CHOOSE i \in DOMAIN defs : defs[i].name = n]
                ELSE NoDef]
    /\ current = defs[Len(defs)].name
    /\ pending = None
    /\ created = Len(defs)
    /\ instances = [n \in Names |->
                       IF \E i \in DOMAIN defs : defs[i].name = n THEN 1 ELSE 0]
    /\ outcome = "ok"
    /\ pc = "wait"
    /\ nc = "connected"
    /\ stack = <<"nc.close">> \o [i \in DOMAIN defs |-> defs[i].name]
    /\ it = Len(defs) + 1
    /\ eit = Len(defs[Len(defs)].endpoints) + 1
    /\ live = UNION {RangeOf(defs[i].endpoints) : i \in DOMAIN defs}
    /\ exc = None
    /\ closes = 0
    /\ runs = 1
    /\ reqs = << >>
    /\ conv_in = PyNone
    /\ conv_out = NotConverted
    /\ InitProbes

InitServe ==
    Waiting(<<Declared(1, "sample", "SampleService",
                       <<"reply_one", "reply_two", "say_hello", "counter">>),
              Declared(2, "calc", "CalcService", <<"add">>)>>)

\* not UTF-8; {"a":1 cut short
BadUtf8 == <<255>>
CutJson == <<123, 34, 97, 34, 58, 49>>

ServePayloads == {<<104, 105>>, BadUtf8, PayloadAB, CutJson}

NextServe ==
    \/ \E ep \in live, data \in ServePayloads : message_handler(ep, data)
    \/ \E i \in DOMAIN reqs : respond_returns(i)

SpecServe == InitServe /\ [][NextServe]_vars

-----------------------------------------------------------------------------
(* SpecDefs: definitions filled through ServiceDefinition.add_endpoint.      *)

StoredNames == {"counter", "reply_one"}
StoredHandlers == {"counter", "reply_one", None}

NextDefs ==
    \/ \E n \in Names : service(n, "1.0.0", "")
    \/ \E n \in Names, e \in StoredNames, f \in StoredHandlers : add_endpoint_call(n, e, f)

SpecDefs == Init /\ [][NextDefs]_vars

-----------------------------------------------------------------------------
(* Properties of the declaration phase (SpecDecl) *)

HasEndpoint(service_def, name) ==
    \E i \in DOMAIN service_def.endpoints : service_def.endpoints[i].name = name

\* C1: the registry holds one ServiceDefinition per declared name (its keys are
\* distinct, each key holds the definition of that name, and as many definitions
\* were constructed as there are keys); a declaration of a name makes that name's
\* definition the one the decorator is applied to; and a definition that is in
\* the registry stays there as the same object (id) with the version and the
\* description it was first declared with, whatever is declared later.
IdempotentRegistration ==
    [][/\ \A i, j \in DOMAIN services' : services'[i] = services'[j] => i = j
       /\ created' = Len(services')
       /\ \A n \in RangeOf(services') : sd'[n].name = n
       /\ \A n \in Names, v \in Versions, d \in Descriptions :
             service(n, v, d) =>
                /\ n \in RangeOf(services')
                /\ pending' = n
                /\ n \notin RangeOf(services) =>
                      sd'[n].version = v /\ sd'[n].description = d
       /\ \A n \in RangeOf(services) :
             /\ n \in RangeOf(services')
             /\ sd'[n].id = sd[n].id
             /\ sd'[n].version = sd[n].version
             /\ sd'[n].description = sd[n].description]_vars

\* a name is declared again after its class was decorated, and the registry
\* holds two services of different versions
WitnessRedeclared ==
    /\ pending = "sample"
    /\ sd["sample"].service_cls # None
    /\ sd["sample"].version = "1.0.0"
    /\ sd["calc"].version = "2.0.0"
    /\ created = 2

\* C2: an endpoint declaration whose name the current service already has ends
\* with DuplicateEndpointError and changes no definition; a name the current
\* service does not have is accepted for a handler, whether or not another
\* service has an endpoint of that name, and other services are left alone.
\* Endpoint names stay distinct within every service.
EndpointUniqueness ==
    [][/\ \A e \in EndpointNames, f \in DeclFuncs :
             (endpoint(e, f) /\ current # None /\ endpoint_name(e, f) # None) =>
                IF HasEndpoint(sd[current], endpoint_name(e, f))
                THEN outcome' = "DuplicateEndpointError" /\ sd' = sd
                ELSE f # None =>
                        /\ outcome' = "ok"
                        /\ HasEndpoint(sd'[current], endpoint_name(e, f))
                        /\ \A n \in Names \ {current} : sd'[n] = sd[n]
       /\ \A n \in Names : \A i, j \in DOMAIN sd'[n].endpoints :
             sd'[n].endpoints[i].name = sd'[n].endpoints[j].name => i = j]_vars

\* a duplicate was refused on one service while the other service has an
\* endpoint of the same name, and the first handler of that name is still there
WitnessDuplicateRefused ==
    /\ outcome = "DuplicateEndpointError"
    /\ current = "calc"
    /\ HasEndpoint(sd["sample"], "counter")
    /\ Len(sd["calc"].endpoints) = 1
    /\ sd["calc"].endpoints[1].name = "counter"
    /\ sd["calc"].endpoints[1].handler = "reply_one"

\* C3: an endpoint declaration made while no service was ever declared ends
\* with MissingServiceContextError and leaves the registry as it was: no
\* definition, no endpoint, no key.
ContextRequired ==
    [][\A e \in EndpointNames, f \in DeclFuncs :
          (endpoint(e, f) /\ current = None) =>
             /\ outcome' = "MissingServiceContextError"
             /\ sd' = sd
             /\ services' = services
             /\ created' = created
             /\ \A n \in Names : sd'[n] = NoDef]_vars

\* the declaration failed for want of a service, and the registry is empty
WitnessNoContext ==
    /\ outcome = "MissingServiceContextError"
    /\ services = << >>
    /\ created = 0

\* C4: an endpoint declared outside a service declaration block (after the
\* decorator of the last service() call was applied to its class, or before any
\* service() call) is an error.
EndpointOnlyInsideBlock ==
    [][\A e \in EndpointNames, f \in DeclFuncs :
          (endpoint(e, f) /\ pending = None /\ f # None) =>
             outcome' = "MissingServiceContextError" /\ sd' = sd]_vars

-----------------------------------------------------------------------------
(* Properties of the whole life of a program (Spec) *)

NoServiceOn(callbacks) == \A k \in DOMAIN callbacks : ~IsService(callbacks[k])

\* C5: the class of a service is instantiated at most once, whatever is
\* declared, built and invoked: an instance, once there, stays the same object
\* of the same class (a later resolve_service keeps it); it comes into being
\* only in add_service of a build, for the service build stands at, and that
\* step leaves the endpoints declared so far as they are; no declaration and no
\* request creates one.
SingletonLifecycle ==
    [][/\ \A n \in Names :
             /\ instances'[n] <= 1
             /\ (instances'[n] = 1) <=> (sd'[n].service_inst # NoInst)
             /\ sd[n].service_inst # NoInst =>
                   /\ sd'[n].service_inst.serial = sd[n].service_inst.serial
                   /\ sd'[n].service_inst.cls = sd[n].service_inst.cls
                   /\ instances'[n] = instances[n]
             /\ (sd[n].service_inst = NoInst /\ sd'[n].service_inst # NoInst) =>
                   /\ pc = "build" /\ pc' = "enter"
                   /\ services[it] = n
                   /\ sd'[n].endpoints = sd[n].endpoints
       /\ (pc = "idle" /\ pc' = "idle") => instances' = instances
       /\ reqs' # reqs => instances' = instances]_vars

\* the second run stands behind resolve_service of a service whose instance
\* served a request during the first run
WitnessResolvedAgain ==
    /\ runs = 2
    /\ pc = "enter"
    /\ it = 1
    /\ instances[services[1]] = 1
    /\ sd[services[1]].service_inst.counter = 1

\* C5 as the specification states it: at most one instance, and once the
\* instance is there the endpoints of the service are all declared.
InstanceAfterAllEndpoints ==
    [][\A n \in Names :
          /\ instances'[n] <= 1
          /\ sd[n].service_inst # NoInst => sd'[n].endpoints = sd[n].endpoints]_vars

\* the requests up to the i-th that went to its endpoint function on its service
CallsUpTo(i) ==
    Cardinality({j \in 1..i : /\ reqs[j].service = reqs[i].service
                              /\ reqs[j].handler = reqs[i].handler})

\* C6: every request is handled on the one instance its service resolved to,
\* and the k-th request to the counter endpoint of a service returns
\* {"result": k}: each sees what the ones before it wrote.
SingletonPersistence ==
    \A i \in DOMAIN reqs :
        /\ reqs[i].target # 0
        /\ reqs[i].target = sd[reqs[i].service].service_inst.serial
        /\ reqs[i].handler = "counter" =>
              /\ reqs[i].ret = PyDict(<< <<ResultKey, PyInt(CallsUpTo(i))>> >>)
              /\ sd[reqs[i].service].service_inst.counter >= CallsUpTo(i)

\* two requests to the counter of one service were answered 1 and then 2
WitnessCountedTwice ==
    /\ Len(reqs) = 2
    /\ reqs[1].service = reqs[2].service
    /\ reqs[1].ret = PyDict(<< <<ResultKey, PyInt(1)>> >>)
    /\ reqs[2].ret = PyDict(<< <<ResultKey, PyInt(2)>> >>)
    /\ reqs[2].stage = "done"

\* C7: once nc.close was called, no service is left to stop on the exit stack
\* and no endpoint is subscribed any more: every service that was started has
\* been stopped before.
ShutdownOrdering ==
    (closes >= 1 \/ nc = "closed") => NoServiceOn(stack) /\ live = {}

\* both services were built, quit was signalled, nothing raised, and the
\* connection is closed
WitnessOrderlyShutdown ==
    /\ pc = "unwind"
    /\ exc = None
    /\ Len(services) = 2
    /\ it = 3
    /\ \A n \in Names : Len(sd[n].endpoints) = 1
    /\ closes = 1

\* C8: from nc.connect returning until nc.close is called, nc.close is on the
\* exit stack; nc.close is never called twice; when run is left (its stack is
\* empty) a connection that was acquired has been closed once, and one that was
\* not (connect raised) not at all; a build that stopped before its last service
\* leaves run with an exception; and at the call of nc.close no started service
\* is left to stop.
GuaranteedClose ==
    [][/\ closes' <= 1
       /\ (nc' = "connected") <=> ("nc.close" \in RangeOf(stack'))
       /\ (pc' = "unwind" /\ stack' = << >>) =>
             IF nc' = "new"
             THEN closes' = 0 /\ exc' = "ConnectError"
             ELSE nc' = "closed" /\ closes' = 1
       /\ (pc' = "unwind" /\ it' >= 1 /\ it' <= Len(services')) => exc' # None
       /\ closes' > closes => NoServiceOn(stack') /\ live' = {}]_vars

\* the constructor of the second service raised after the first was started;
\* run is left with that exception and the connection closed once
WitnessCloseAfterFailure ==
    /\ pc = "unwind"
    /\ stack = << >>
    /\ exc = "TypeError"
    /\ it = 2
    /\ nc = "closed"
    /\ closes = 1

-----------------------------------------------------------------------------
(* Properties of _convert_result (SpecConv) *)

\* C9: _convert_result calls req.respond not at all for None and exactly once
\* for every other return value.
ResponseCount ==
    conv_out # NotConverted =>
        Len(conv_out.responded) = IF conv_in = PyNone THEN 0 ELSE 1

\* the bytes the conversion rules give for a value json can serialise
ExpectedBytes(x) ==
    CASE x.t \in {"bytes", "bytearray"} -> x
      [] x.t = "str" -> Utf8Encode(x.v)
      [] x.t = "int" -> Utf8Encode(StrInt(x.v))
      [] x.t = "bool" -> Utf8Encode(StrBool(x.v))
      [] x.t = "float" -> Utf8Encode(StrFloat(x.v))
      [] OTHER -> Utf8Encode(JsonText(x))

\* C10: every return value other than None is responded with: bytes as they
\* are, text UTF-8 encoded, a number or boolean stringified and encoded, any
\* other value as the UTF-8 encoding of its JSON serialisation.
ResultConversion ==
    (conv_out # NotConverted /\ conv_in # PyNone) =>
        /\ conv_out.state = "returned"
        /\ Len(conv_out.responded) = 1
        /\ (conv_in.t \in {"bytes", "bytearray"} \/ JsonSerializable(conv_in)) =>
              conv_out.responded[1] = ExpectedBytes(conv_in)

-----------------------------------------------------------------------------
(* Properties of _convert_to_args (SpecArgs) *)

\* the parameters left once a leading self and, after it, a leading parameter
\* annotated Request are dropped, each <<name, annotation>>
Receiver(spec) == Len(spec.args) > 0 /\ spec.args[1] = "self"
Params(spec) == [i \in 1..Len(spec.args) |-> <<spec.args[i], spec.annotations[i]>>]
AfterReceiver(spec) == IF Receiver(spec) THEN Tail(Params(spec)) ELSE Params(spec)
RawRequest(spec) == AfterReceiver(spec) # << >> /\ AfterReceiver(spec)[1][2] = "Request"
Remaining(spec) == IF RawRequest(spec) THEN Tail(AfterReceiver(spec)) ELSE AfterReceiver(spec)

\* the one positional argument for a payload and a declared type, or Raised
Positional(type, data) ==
    CASE type \in {None, "bytes"} -> PyBytes(data)
      [] type = "bytearray" -> PyByteArray(data)
      [] type = "str" -> Utf8Decode(data)
      [] type = "dict" -> json_loads(PyBytes(data))
      [] OTHER -> PyBytes(data)

\* C11: the number of parameters left after the receiver and a leading raw
\* request selects the conversion.  None left: the arguments are the request
\* (if declared) and nothing of the payload, whatever the payload.  One left:
\* the payload follows as one positional argument, as it is for an untyped or
\* bytes parameter, as a bytearray, UTF-8 decoded for str, parsed as JSON for
\* dict.  Two or more: the decoded payload parsed as JSON is the named
\* arguments.  A conversion that fails is the exception raised.
ArityDirected ==
    args_out # PyNone =>
        LET spec == args_in.spec
            data == args_in.data
            lead == IF RawRequest(spec) THEN <<RequestHandle>> ELSE << >>
            n == Len(Remaining(spec))
            one == Positional(Remaining(spec)[1][2], data)
            text == Utf8Decode(data)
            fields == IF text.t = "raise" THEN text ELSE json_loads(text)
        IN  CASE n = 0 ->
                   args_out = [t |-> "args", has_self |-> Receiver(spec),
                               args |-> lead, kwargs |-> PyDict(<< >>)]
              [] n = 1 ->
                   IF one.t = "raise" THEN args_out = one
                   ELSE args_out = [t |-> "args", has_self |-> Receiver(spec),
                                    args |-> Append(lead, one), kwargs |-> PyDict(<< >>)]
              [] OTHER ->
                   IF fields.t = "raise" THEN args_out = fields
                   ELSE args_out = [t |-> "args", has_self |-> Receiver(spec),
                                    args |-> lead, kwargs |-> fields]

\* {"a":1,"b":2} for a handler (self, a, b) became a=1, b=2
WitnessNamedArguments ==
    /\ args_in.data = PayloadAB
    /\ Len(Remaining(args_in.spec)) = 2
    /\ args_out.t = "args"
    /\ args_out.args = << >>
    /\ args_out.kwargs = PyDict(<< <<Text(<<"a">>), PyInt(1)>>, <<Text(<<"b">>), PyInt(2)>> >>)

-----------------------------------------------------------------------------
(* Properties of ClientBuilder.__init__ (SpecServers) *)

\* the texts with commas between them
RECURSIVE Joined(_)
Joined(texts) ==
    IF Len(texts) = 1 THEN texts[1].v ELSE texts[1].v \o <<44>> \o Joined(Tail(texts))

EmptyInput(servers) == servers \in {PyStr(<< >>), PyList(<< >>)}

\* C12: whatever is accepted as servers, _servers is a list of at least one
\* address; a text is split at its commas, in order; an empty text and an
\* empty list give the one local default address.
AddressNormalization ==
    cb_servers # NotConstructed =>
        /\ cb_servers.t = "list"
        /\ Len(cb_servers.v) >= 1
        /\ cb_in.t = "str" /\ cb_in.v # << >> =>
              /\ Joined(cb_servers.v) = cb_in.v
              /\ \A i \in DOMAIN cb_servers.v : 44 \notin RangeOf(cb_servers.v[i].v)
        /\ cb_in.t = "list" /\ cb_in.v # << >> => cb_servers = cb_in
        /\ EmptyInput(cb_in) => cb_servers = PyList(<<DefaultServer>>)

-----------------------------------------------------------------------------
(* Properties of message_handler for the built services of sample1           *)
(* (SpecServe)                                                               *)

\* Hello hi!   and   {"result": 3}
HelloHi == <<72, 101, 108, 108, 111, 32, 104, 105, 33>>
ResultThree == <<123, 34, 114, 101, 115, 117, 108, 116, 34, 58, 32, 51, 125>>

\* the request that arrived in this step
Newest == reqs'[Len(reqs')]

\* C13: a request whose payload cannot be converted for its handler (bytes that
\* are not UTF-8 for the str parameter of say_hello, those or cut-short JSON for
\* the two parameters of add) ends with the decoding exception raised out of
\* message_handler: the handler is not called (no arguments were made, it sent
\* nothing), the dispatcher responds nothing, and the registry, every
\* definition with its instance and every subscription are as before.  A
\* request with a good payload is served as usual whatever failed before it.
DecodingFailure ==
    [][Len(reqs') > Len(reqs) =>
          /\ (\/ Newest.handler = "say_hello" /\ Newest.data = BadUtf8
              \/ Newest.handler = "add" /\ Newest.data \in {BadUtf8, CutJson}) =>
                /\ Newest.stage = "raised"
                /\ Newest.error = IF Newest.data = BadUtf8 THEN "UnicodeDecodeError"
                                  ELSE "JSONDecodeError"
                /\ Newest.cv.t = "raise"
                /\ Newest.handler_sent = << >>
                /\ Newest.dispatcher_sent = << >>
                /\ sd' = sd /\ services' = services /\ current' = current
                /\ live' = live
          /\ (Newest.handler = "say_hello" /\ Newest.data = <<104, 105>>) =>
                /\ Newest.stage = "responding"
                /\ Newest.dispatcher_sent = <<PyBytes(HelloHi)>>
          /\ (Newest.handler = "add" /\ Newest.data = PayloadAB) =>
                /\ Newest.stage = "responding"
                /\ Newest.dispatcher_sent = <<PyBytes(ResultThree)>>]_vars

\* say_hello failed on bytes that are not UTF-8 and then answered Hello hi!
WitnessServedAfterFailure ==
    /\ Len(reqs) = 2
    /\ reqs[1].handler = "say_hello" /\ reqs[1].stage = "raised"
    /\ reqs[1].error = "UnicodeDecodeError"
    /\ reqs[2].handler = "say_hello" /\ reqs[2].stage = "done"
    /\ reqs[2].dispatcher_sent = <<PyBytes(HelloHi)>>

-----------------------------------------------------------------------------
(* Properties of ServiceDefinition.add_endpoint (SpecDefs) *)

\* C14: add_endpoint with no handler (None) ends with InvalidHandlerError and
\* leaves every definition as it was: nothing is stored under the name, and
\* what was stored under it before stays.
InvalidHandler ==
    [][\A n \in Names, e \in StoredNames :
          add_endpoint_call(n, e, None) =>
             /\ outcome' = "InvalidHandlerError"
             /\ sd' = sd
             /\ \A m \in Names : \A i \in DOMAIN sd'[m].endpoints :
                   sd'[m].endpoints[i].handler # None]_vars

\* the call failed on a registry in which every service holds an endpoint under
\* every name, so that the name of the failed call was taken, and its endpoint
\* is still there
WitnessHandlerRetained ==
    /\ outcome = "InvalidHandlerError"
    /\ \A n \in Names, e \in StoredNames : HasEndpoint(sd[n], e)
    /\ \A n \in Names : \A i \in DOMAIN sd[n].endpoints : sd[n].endpoints[i].handler = "counter"

-----------------------------------------------------------------------------
(* Further properties of the whole life of a program (Spec) *)

\* C15: a service that build has handed to the transport (it is being entered,
\* its endpoints are being attached, its stop is on the exit stack, or one of
\* its endpoints is subscribed) has its instance, so every request, also one
\* that arrives while build is at a later service, is handled on an instance.
ResolveBeforeServe ==
    /\ pc \in {"enter", "endpoints"} => sd[services[it]].service_inst # NoInst
    /\ \A k \in DOMAIN stack :
          IsService(stack[k]) => sd[stack[k]].service_inst # NoInst
    /\ \A ep \in live : sd[ep.service_def].service_inst # NoInst
    /\ \A i \in DOMAIN reqs : reqs[i].target >= 1

\* in the first run a request was handled by the first service while build is
\* entering the second
WitnessServedDuringBuild ==
    /\ runs = 1
    /\ pc = "enter"
    /\ it = 2
    /\ Len(reqs) >= 1
    /\ reqs[1].service = services[1]
    /\ reqs[1].stage = "done"

\* C16: a step of run, of build or of a dispatch leaves the registry's keys,
\* the current service, and each definition's identity, name, version,
\* description, class and endpoints as they are; the instance of a definition
\* changes only from none to the one constructed, and then never again.
RegistryFrozen ==
    [][(pc # "idle" \/ pc' # "idle" \/ reqs' # reqs) =>
          /\ services' = services
          /\ current' = current
          /\ \A n \in Names :
                /\ sd'[n].id = sd[n].id
                /\ sd'[n].name = sd[n].name
                /\ sd'[n].version = sd[n].version
                /\ sd'[n].description = sd[n].description
                /\ sd'[n].service_cls = sd[n].service_cls
                /\ sd'[n].endpoints = sd[n].endpoints
                /\ sd'[n].service_inst.serial # sd[n].service_inst.serial =>
                      sd[n].service_inst = NoInst /\ sd'[n].service_inst.serial = 1]_vars

\* the second run waits with two services of one endpoint each, and requests
\* were served
WitnessServingAgain ==
    /\ runs = 2
    /\ pc = "wait"
    /\ \A n \in Names : Len(sd[n].endpoints) = 1 /\ sd[n].service_inst # NoInst
    /\ Len(reqs) = 2
    /\ reqs[2].stage = "done"

-----------------------------------------------------------------------------
(* Further properties of serving sample1 (SpecServe) *)

\* C17: after any number of invocations every endpoint definition, in its
\* service's endpoints and as subscribed, holds the parameter list inspected at
\* registration; every request got the arguments that the unused definition
\* yields for its payload, so requests of one endpoint with the same payload
\* got the same arguments.
ShapeUnchanged ==
    /\ \A ep \in live : ep.handler_args_spec = getfullargspec(ep.handler)
    /\ \A n \in Names : \A k \in DOMAIN sd[n].endpoints :
          sd[n].endpoints[k].handler_args_spec = getfullargspec(sd[n].endpoints[k].handler)
    /\ \A i \in DOMAIN reqs :
          reqs[i].cv = convert_to_args(
              EndpointDefinition(reqs[i].service, reqs[i].name, reqs[i].handler),
              reqs[i].data)
    /\ \A i, j \in DOMAIN reqs :
          /\ reqs[i].service = reqs[j].service
          /\ reqs[i].name = reqs[j].name
          /\ reqs[i].data = reqs[j].data
          => reqs[i].cv = reqs[j].cv

\* reply_one, which takes the raw request, was invoked twice with one payload,
\* the second time while the first stood at its await, and got the request
\* handle both times
WitnessSameArguments ==
    /\ Len(reqs) = 2
    /\ reqs[1].name = "reply_one"
    /\ reqs[2].name = "reply_one"
    /\ reqs[1].data = reqs[2].data
    /\ reqs[1].stage = "in_handler"
    /\ reqs[2].cv.t = "args"
    /\ reqs[2].cv.args = <<RequestHandle>>

\* the requests that went to the counter endpoint of sample
CounterCalls == {i \in DOMAIN reqs : reqs[i].service = "sample" /\ reqs[i].name = "counter"}

\* C19: the counter endpoint reads and writes _counter without an await in
\* between: no request of it ever stands inside the handler, and the N requests
\* of it so far returned the values 1..N, each once, and left _counter at N,
\* whichever of their responses are still being sent.
CounterAtomic ==
    /\ \A i \in CounterCalls :
          /\ reqs[i].stage \in {"responding", "done"}
          /\ reqs[i].ret.t = "dict"
          /\ Len(reqs[i].ret.v) = 1
          /\ reqs[i].ret.v[1][1] = ResultKey
    /\ {reqs[i].ret.v[1][2] : i \in CounterCalls} =
          {PyInt(k) : k \in 1..Cardinality(CounterCalls)}
    /\ sd["sample"].service_inst.counter = Cardinality(CounterCalls)

\* of two requests to counter the later one's response is out while the
\* earlier one's is still being sent
WitnessLaterAnsweredFirst ==
    /\ CounterCalls = {1, 2}
    /\ reqs[1].stage = "responding"
    /\ reqs[2].stage = "done"
    /\ reqs[1].ret.v[1][2] = PyInt(1)
    /\ reqs[2].ret.v[1][2] = PyInt(2)

-----------------------------------------------------------------------------
(* SpecRace: a service whose class has, besides counter and reply_one, an    *)
(* endpoint function that awaits between reading and writing _counter; run   *)
(* waits for quit and requests arrive.                                       *)

InitRace ==
    Waiting(<<Declared(1, "sample", "SampleService",
                       <<"counter", "reply_one", ReadAwaitWrite>>)>>)

RacePayloads == {<< >>, <<104, 105>>}

NextRace ==
    \/ \E ep \in live, data \in RacePayloads : message_handler(ep, data)
    \/ \E i \in DOMAIN reqs : respond_returns(i)
    \/ \E i \in DOMAIN reqs : handler_resumes(i)

SpecRace == InitRace /\ [][NextRace]_vars

\* a request stands at an await, inside its handler or at the response send
Suspended(i) == reqs[i].stage \in {"in_handler", "responding"}

\* C18: message_handler takes no lock: while requests of a service stand at an
\* await, inside their handler or at the response send, the next request to an
\* endpoint of the service whose handler awaits is dispatched and its handler
\* called at once, on the same instance; the read-await-write handler returns
\* the value it read before its await plus one, whatever was written since.
NoSerialization ==
    /\ (Len(reqs) < MaxRequests /\ \E i \in DOMAIN reqs : Suspended(i)) =>
          \A ep \in live, data \in RacePayloads :
              ep.handler \in {ReadAwaitWrite, "reply_one"} =>
                  ENABLED message_handler(ep, data)
    /\ \A i \in DOMAIN reqs :
          /\ reqs[i].target = sd[reqs[i].service].service_inst.serial
          /\ reqs[i].handler = ReadAwaitWrite /\ reqs[i].stage # "in_handler" =>
                reqs[i].ret = PyDict(<< <<ResultKey, PyInt(reqs[i].local + 1)>> >>)

\* a lost update: two requests of the read-await-write endpoint were in their
\* handlers together, both returned 1 and _counter is 1; the response to the
\* later one is out while the response to the earlier one is still being sent
WitnessLostUpdate ==
    /\ Len(reqs) = 2
    /\ reqs[1].handler = ReadAwaitWrite
    /\ reqs[2].handler = ReadAwaitWrite
    /\ reqs[1].ret = PyDict(<< <<ResultKey, PyInt(1)>> >>)
    /\ reqs[2].ret = PyDict(<< <<ResultKey, PyInt(1)>> >>)
    /\ sd["sample"].service_inst.counter = 1
    /\ reqs[1].stage = "responding"
    /\ reqs[2].stage = "done"

-----------------------------------------------------------------------------
(* SpecRedecl: one service name declared again and again, with either class, *)
(* either version and either endpoint function, before and between runs.     *)

RedeclClasses == {"SampleService", "CalcService"}
RedeclFuncs == {"counter", "add"}

NextRedecl ==
    \/ \E v \in Versions : service("sample", v, "")
    \/ \E c \in RedeclClasses : decorator(c)
    \/ \E f \in RedeclFuncs : endpoint(None, f)
    \/ Build

SpecRedecl == Init /\ [][NextRedecl]_vars

\* C20: declaring a registered name again leaves its definition as it is
\* (version and description of the first declaration stay); applying the
\* decorator to a class sets the definition's class to that class, whatever it
\* was, and leaves its endpoints and its instance alone; an endpoint declared
\* afterwards is added behind the ones already there; an instance once resolved
\* is never replaced, not by a later build either.
Redeclaration ==
    [][\A n \in Names :
          /\ n \in RangeOf(services) /\ pending' = n /\ pending' # pending =>
                sd'[n] = sd[n]
          /\ pending = n /\ pending' = None =>
                /\ \A c \in RedeclClasses : decorator(c) => sd'[n].service_cls = c
                /\ sd'[n] = [sd[n] EXCEPT !.service_cls = sd'[n].service_cls]
          /\ sd'[n].service_cls # sd[n].service_cls => pending = n /\ pending' = None
          /\ n \in RangeOf(services) =>
                /\ sd'[n].version = sd[n].version
                /\ sd'[n].description = sd[n].description
                /\ Len(sd'[n].endpoints) >= Len(sd[n].endpoints)
                /\ \A k \in DOMAIN sd[n].endpoints : sd'[n].endpoints[k] = sd[n].endpoints[k]
          /\ sd[n].service_inst # NoInst =>
                /\ sd'[n].service_inst.cls = sd[n].service_inst.cls
                /\ sd'[n].service_inst.serial = sd[n].service_inst.serial]_vars

\* sample was declared with SampleService and counter, built and resolved, then
\* declared again with CalcService and add: the second run serves both
\* endpoints on the SampleService instance while the definition names
\* CalcService
WitnessInstanceOfEarlierType ==
    /\ runs = 2
    /\ pc = "wait"
    /\ sd["sample"].service_cls = "CalcService"
    /\ sd["sample"].service_inst.cls = "SampleService"
    /\ Len(sd["sample"].endpoints) = 2
    /\ sd["sample"].endpoints[1].handler = "counter"
    /\ sd["sample"].endpoints[2].handler = "add"
    /\ Cardinality(live) = 2

====
